---- MODULE Spec2Model ----
(***************************************************************************)
(* Model of the "mitraillette" dice-game analyser:                         *)
(*   - combinaison.rs : the scoring combinations, their value and cost     *)
(*   - choix.rs       : enumeration of the choices offered by a roll       *)
(*   - stats.rs       : annotated tables and the memoised solver           *)
(***************************************************************************)
EXTENDS Integers, Sequences, FiniteSets, TLC

VARIABLES
    pc,               \* position of the modelled routine
    nb_des,           \* enumerer_choix / StatsJet::new: number of dice
    num_comb,         \* enumerer_choix: index of the raw roll being tallied
    comptage_choix,   \* enumerer_choix: HashMap choice-set -> occurrences
    choix_et_probas,  \* enumerer_choix: returned HashMap choice-set -> proba
    stats_choix,      \* StatsJet::new: annotated non-bust choices
    histo,            \* enumerer_combinaisons: the input histogram
    choix,            \* enumerer_combinaisons: the returned Vec
    possibilites,     \* StatsJet::new closure applied to `choix`
    stats_jets,       \* Stats::stats_jets: per dice count, the stats_choix
    esperance,        \* StatsJet::esperance caches, per dice count
    proba_fin,        \* StatsJet::proba_fin caches, per dice count
    requete,          \* arguments of the running esperance / proba_fin call
    num_relances,     \* loop variable of esperance / proba_fin
    ancienne,         \* ancienne_esperance / ancienne_proba
    pile,             \* frames of the running calcul_* recursion
    retour,           \* value returned to the loop by the last calcul_* call
    resultat,         \* value returned by the last esperance / proba_fin call
    panique,          \* the assertion that failed, if any
    nb_requetes       \* number of calls made on this Stats so far

varsChoix == <<nb_des, num_comb, comptage_choix, choix_et_probas, stats_choix,
               histo, choix, possibilites>>

varsStats == <<stats_jets, esperance, proba_fin, requete, num_relances, ancienne,
               pile, retour, resultat, panique, nb_requetes>>

vars == <<pc, varsChoix, varsStats>>

----------------------------------------------------------------------------
(* Program constants *)

NB_DES_TOT == 6
NB_FACES == 6

Faces == 0 .. (NB_FACES - 1)

Min2(a, b) == IF a <= b THEN a ELSE b
Max2(a, b) == IF a >= b THEN a ELSE b

RECURSIVE Pow(_, _)
Pow(b, e) == IF e = 0 THEN 1 ELSE b * Pow(b, e - 1)

Range(s) == { s[i] : i \in DOMAIN s }

----------------------------------------------------------------------------
(* Flottant: the program's floating-point numbers, in exact arithmetic.    *)
(* Every number the program computes is a non-negative multiple of a power *)
(* of 1/6: it is kept as num / BASE^exp, num a little-endian sequence of   *)
(* base-BASE digits without leading zero digit, exp minimal.               *)
(* The operations bind their operands with a quantifier (a \in {x}), so    *)
(* that an operand is evaluated once, however often the operation reads it. *)

BASE == 6 * 6 * 6 * 6 * 6

BigNorm(a) ==
    CHOOSE r \in { IF \A i \in DOMAIN u : u[i] = 0 THEN <<>>
                   ELSE SubSeq(u, 1, CHOOSE i \in DOMAIN u :
                                        u[i] # 0 /\ \A j \in DOMAIN u : j > i => u[j] = 0) :
                   u \in {a} } : TRUE

BigDigit(a, i) == IF i \in DOMAIN a THEN a[i] ELSE 0

RECURSIVE BigAddFrom(_, _, _, _)
BigAddFrom(a, b, i, carry) ==
    IF i > Len(a) /\ i > Len(b)
    THEN IF carry = 0 THEN <<>> ELSE <<carry>>
    ELSE LET s == BigDigit(a, i) + BigDigit(b, i) + carry
         IN  <<s % BASE>> \o BigAddFrom(a, b, i + 1, s \div BASE)

BigAdd(a, b) == CHOOSE s \in { BigAddFrom(u, v, 1, 0) : u \in {a}, v \in {b} } : TRUE

RECURSIVE BigMulSmallFrom(_, _, _, _)
BigMulSmallFrom(a, k, i, carry) ==
    IF i > Len(a)
    THEN IF carry = 0 THEN <<>> ELSE <<carry>>
    ELSE LET s == a[i] * k + carry
         IN  <<s % BASE>> \o BigMulSmallFrom(a, k, i + 1, s \div BASE)

\* a * k for one digit k < BASE
BigMulSmall(a, k) == BigNorm(BigMulSmallFrom(a, k, 1, 0))

BigShift(a, d) ==
    CHOOSE r \in { IF u = <<>> THEN <<>> ELSE [i \in 1 .. d |-> 0] \o u : u \in {a} } : TRUE

RECURSIVE BigMulFrom(_, _, _)
BigMulFrom(a, b, i) ==
    IF i > Len(b) THEN <<>>
    ELSE BigAdd(BigShift(BigMulSmall(a, b[i]), i - 1), BigMulFrom(a, b, i + 1))

BigMul(a, b) == BigNorm(BigMulFrom(a, b, 1))

\* a < b on normalised digit sequences
BigLess(a, b) ==
    \/ Len(a) < Len(b)
    \/ /\ Len(a) = Len(b)
       /\ \E i \in DOMAIN a :
            /\ a[i] < b[i]
            /\ \A j \in DOMAIN a : j > i => a[j] = b[j]

RECURSIVE BigFromNat(_)
BigFromNat(n) == IF n = 0 THEN <<>> ELSE <<n % BASE>> \o BigFromNat(n \div BASE)

RECURSIVE FlNorm(_)
FlNorm(x) ==
    CHOOSE r \in { IF a.num = <<>> THEN [num |-> <<>>, exp |-> 0]
                   ELSE IF a.exp > 0 /\ a.num[1] = 0
                        THEN FlNorm([num |-> Tail(a.num), exp |-> a.exp - 1])
                        ELSE a : a \in {x} } : TRUE

\* `n as Flottant`
FlFromNat(n) == [num |-> BigFromNat(n), exp |-> 0]

FlZero == FlFromNat(0)
FlOne == FlFromNat(1)

\* the digits of x at the scale BASE^e, e >= x.exp
FlAt(x, e) == BigShift(x.num, e - x.exp)

FlLess(x, y) ==
    \E a \in {x}, b \in {y} :
        \E u \in {FlAt(a, Max2(a.exp, b.exp))}, v \in {FlAt(b, Max2(a.exp, b.exp))} :
            BigLess(u, v)

FlGeq(x, y) == ~FlLess(x, y)

FlMax(x, y) == CHOOSE m \in { IF FlLess(a, b) THEN b ELSE a : a \in {x}, b \in {y} } : TRUE

FlAdd(x, y) ==
    CHOOSE s \in { FlNorm([num |-> BigAdd(FlAt(a, Max2(a.exp, b.exp)),
                                          FlAt(b, Max2(a.exp, b.exp))),
                           exp |-> Max2(a.exp, b.exp)]) : a \in {x}, b \in {y} } : TRUE

FlMul(x, y) ==
    CHOOSE p \in { FlNorm([num |-> BigMul(a.num, b.num), exp |-> a.exp + b.exp]) :
                      a \in {x}, b \in {y} } : TRUE

\* 1. / (6^n as Flottant), n <= 10
FlInvPow6(n) ==
    IF n <= 5 THEN FlNorm([num |-> BigFromNat(Pow(6, 5 - n)), exp |-> 1])
    ELSE FlNorm([num |-> BigFromNat(Pow(6, 10 - n)), exp |-> 2])

----------------------------------------------------------------------------
(* combinaison.rs *)

Suite == [type |-> "Suite", idx_face |-> 0, idx_face_2 |-> 0,
          nb_un |-> 0, nb_cinq |-> 0]

TriplePaire == [type |-> "TriplePaire", idx_face |-> 0, idx_face_2 |-> 0,
                nb_un |-> 0, nb_cinq |-> 0]

BrelanDouble(f1, f2) == [type |-> "BrelanDouble", idx_face |-> f1,
                         idx_face_2 |-> f2, nb_un |-> 0, nb_cinq |-> 0]

BrelanSimple(f, un, cinq) == [type |-> "BrelanSimple", idx_face |-> f,
                              idx_face_2 |-> 0, nb_un |-> un, nb_cinq |-> cinq]

FacesSimples(un, cinq) == [type |-> "FacesSimples", idx_face |-> 0,
                           idx_face_2 |-> 0, nb_un |-> un, nb_cinq |-> cinq]

\* the unreachable!() arm of enumerer_combinaisons: the program panics
Inatteignable == [type |-> "unreachable", idx_face |-> 0, idx_face_2 |-> 0,
                  nb_un |-> 0, nb_cinq |-> 0]

VALEURS_BRELANS_Mut == <<100, 200, 300, 400, 500, 600>>

VALEURS_BRELANS == <<1000, 200, 300, 400, 500, 600>>

ValeurMut(comb) ==
    CASE comb.type \in {"Suite", "TriplePaire"} -> 500
      [] comb.type = "BrelanDouble" ->
            (comb.idx_face + 1) * 100 + (comb.idx_face_2 + 1) * 100
      [] comb.type = "BrelanSimple" ->
            (comb.idx_face + 1) * 100 + comb.nb_un * 100 + comb.nb_cinq * 50
      [] comb.type = "FacesSimples" ->
            comb.nb_un * 100 + comb.nb_cinq * 50

\* Combinaison::valeur
Valeur(comb) ==
    CASE comb.type \in {"Suite", "TriplePaire"} -> 500
      [] comb.type = "BrelanDouble" ->
            VALEURS_BRELANS[comb.idx_face + 1] + VALEURS_BRELANS[comb.idx_face_2 + 1]
      [] comb.type = "BrelanSimple" ->
            VALEURS_BRELANS[comb.idx_face + 1] + comb.nb_un * 100 + comb.nb_cinq * 50
      [] comb.type = "FacesSimples" ->
            comb.nb_un * 100 + comb.nb_cinq * 50

NbDesMut(comb) ==
    CASE comb.type \in {"Suite", "TriplePaire", "BrelanDouble"} -> 6
      [] comb.type = "BrelanSimple" -> 3 + comb.nb_un + comb.nb_cinq + 1
      [] comb.type = "FacesSimples" -> comb.nb_un + comb.nb_cinq

\* Combinaison::nb_des
NbDes(comb) ==
    CASE comb.type \in {"Suite", "TriplePaire", "BrelanDouble"} -> 6
      [] comb.type = "BrelanSimple" -> 3 + comb.nb_un + comb.nb_cinq
      [] comb.type = "FacesSimples" -> comb.nb_un + comb.nb_cinq

----------------------------------------------------------------------------
(* choix.rs: enumerer_combinaisons *)

\* histo.iter().sum(): the number of dice of a histogram
TotalDes(h) == h[0] + h[1] + h[2] + h[3] + h[4] + h[5]

NumPairesMut(h) ==
    ((h[0] + 1) \div 2) + ((h[1] + 1) \div 2) + ((h[2] + 1) \div 2)
        + ((h[3] + 1) \div 2) + ((h[4] + 1) \div 2) + ((h[5] + 1) \div 2)

\* histo.iter().map(|&bin| bin/2).sum()
NumPaires(h) ==
    (h[0] \div 2) + (h[1] \div 2) + (h[2] \div 2)
        + (h[3] \div 2) + (h[4] \div 2) + (h[5] \div 2)

DoubleComptageMut(idx_face, idx_face_2) == FALSE

\* `if idx_face_2 < idx_face { continue; }`
DoubleComptage(idx_face, idx_face_2) == idx_face_2 < idx_face

\* one arm of the match on a combination of the recursive result
BrelanAvec(idx_face, combi) ==
    CASE combi.type = "BrelanSimple" /\ combi.nb_un = 0 /\ combi.nb_cinq = 0 ->
            IF DoubleComptage(idx_face, combi.idx_face) THEN <<>>
            ELSE <<BrelanDouble(idx_face, combi.idx_face)>>
      [] combi.type = "FacesSimples" ->
            <<BrelanSimple(idx_face, combi.nb_un, combi.nb_cinq)>>
      [] OTHER -> <<Inatteignable>>

RECURSIVE BrelansAvec(_, _, _)
\* `for combi in choix_internes { match combi ... }`, from position i on
BrelansAvec(idx_face, choix_internes, i) ==
    IF i > Len(choix_internes) THEN <<>>
    ELSE BrelanAvec(idx_face, choix_internes[i])
            \o BrelansAvec(idx_face, choix_internes, i + 1)

SimplesUnMut(h) == [n \in 1 .. h[0] |-> FacesSimples(n, 0)]

\* `for nb_un in 1..=(histo[0]%3)`
SimplesUn(h) == [n \in 1 .. (h[0] % 3) |-> FacesSimples(n, 0)]

SimplesCinqMut(h) == [n \in 1 .. ((h[4] % 3) + 1) |-> FacesSimples(h[0] % 3, n - 1)]

\* `for nb_cinq in 1..=(histo[4]%3)`
SimplesCinq(h) == [n \in 1 .. (h[4] % 3) |-> FacesSimples(h[0] % 3, n)]

RECURSIVE enumerer_combinaisons(_)
RECURSIVE Brelans(_, _)

\* `for (idx_face, &bin) in histo.iter().enumerate()`, from face idx_face on
Brelans(h, idx_face) ==
    IF idx_face >= NB_FACES THEN <<>>
    ELSE IF h[idx_face] < 3 THEN Brelans(h, idx_face + 1)
    ELSE LET histo_sans_brelans == [h EXCEPT ![idx_face] = @ - 3]
             choix_internes == enumerer_combinaisons(histo_sans_brelans)
         IN  <<BrelanSimple(idx_face, 0, 0)>>
                \o BrelansAvec(idx_face, choix_internes, 1)
                \o Brelans(h, idx_face + 1)

enumerer_combinaisons(h) ==
    (IF \A f \in Faces : h[f] = 1 THEN <<Suite>> ELSE <<>>)
        \o (IF NumPaires(h) = 3 THEN <<TriplePaire>> ELSE <<>>)
        \o Brelans(h, 0)
        \o SimplesUn(h)
        \o SimplesCinq(h)

----------------------------------------------------------------------------
(* choix.rs: enumerer_choix *)

\* NB_FACES.pow(nb_des as u32)
NbComb(n) == Pow(NB_FACES, n)

RECURSIVE HistoDe(_, _)
\* the histogram of the roll whose base-NB_FACES digits are `reste`
HistoDe(reste, n) ==
    IF n = 0 THEN [f \in Faces |-> 0]
    ELSE [HistoDe(reste \div NB_FACES, n - 1) EXCEPT ![reste % NB_FACES] = @ + 1]

\* A HashMap is kept as the sequence of its entries, each key once, in the
\* order the keys were inserted.
Cles(m) == { m[i].choix : i \in DOMAIN m }

Indice(m, c) == CHOOSE i \in DOMAIN m : m[i].choix = c

CompterMut(comptage, c) ==
    IF c \in Cles(comptage)
    THEN [comptage EXCEPT ![Indice(comptage, c)].compte = @ + 1]
    ELSE Append(comptage, [choix |-> c, compte |-> 0])

\* `*comptage_choix.entry(choix).or_insert(0) += 1`
Compter(comptage, c) ==
    IF c \in Cles(comptage)
    THEN [comptage EXCEPT ![Indice(comptage, c)].compte = @ + 1]
    ELSE Append(comptage, [choix |-> c, compte |-> 1])

\* body of `for num_comb in 0..nb_comb`
Tirage(comptage, n, num) == Compter(comptage, enumerer_combinaisons(HistoDe(num, n)))

ProbaMut(compte, n) == FlFromNat(compte)

\* compte as Flottant * norme
Proba(compte, n) == FlMul(FlFromNat(compte), FlInvPow6(n))

\* comptage_choix.into_iter().map(..).collect()
Normer(comptage, n) ==
    [i \in DOMAIN comptage |->
        [choix |-> comptage[i].choix, proba |-> Proba(comptage[i].compte, n)]]

----------------------------------------------------------------------------
(* stats.rs: StatsJet::new *)

\* nb_des - comb.nb_des(); a negative result stands for the usize underflow
DesRestants(n, comb) == n - NbDes(comb)

NbDesRelanceMut(n, comb) == DesRestants(n, comb)

NbDesRelance(n, comb) ==
    IF DesRestants(n, comb) = 0 THEN NB_DES_TOT ELSE DesRestants(n, comb)

\* the closure building a Possibilite
Possibilite(n, comb) ==
    [comb |-> comb, valeur |-> Valeur(comb), nb_des_relance |-> NbDesRelance(n, comb)]

\* choix.into_iter().map(..).collect()
Annoter(n, c) == [i \in DOMAIN c |-> Possibilite(n, c[i])]

NonPerdantMut(e) == TRUE

NonPerdant(e) == e.choix # <<>>

\* main.rs: `choix_et_probas.remove(&[][..])`, an Option: the probability of
\* the empty choice, or nothing (on which unwrap() panics)
proba_perte(cp) ==
    IF \E i \in DOMAIN cp : cp[i].choix = <<>>
    THEN <<cp[CHOOSE i \in DOMAIN cp : cp[i].choix = <<>>].proba>>
    ELSE <<>>

\* choix_et_probas.remove(&[][..]), then the annotation of the other choices
StatsChoix(n, cp) ==
    LET gagnants == SelectSeq(cp, NonPerdant)
    IN  [i \in DOMAIN gagnants |->
            [choix |-> Annoter(n, gagnants[i].choix), proba |-> gagnants[i].proba]]

----------------------------------------------------------------------------
(* Specification of enumerer_choix followed by StatsJet::new *)

Vide == <<>>
HistoNul == [f \in Faces |-> 0]

\* no call has been made
Aucune == [fn |-> "aucune", score |-> 0, nb_des |-> 0, mise |-> 0, max_relances |-> 0]

\* the solver's variables before Stats::new
SansStats ==
    /\ stats_jets = Vide
    /\ esperance = Vide
    /\ proba_fin = Vide
    /\ requete = Aucune
    /\ num_relances = 0
    /\ ancienne = FlZero
    /\ pile = Vide
    /\ retour = Vide
    /\ resultat = Vide
    /\ panique = "non"
    /\ nb_requetes = 0

InitChoix ==
    /\ pc = "tirages"
    /\ nb_des \in 1 .. NB_DES_TOT
    /\ num_comb = 0
    /\ comptage_choix = Vide
    /\ choix_et_probas = Vide
    /\ stats_choix = Vide
    /\ histo = HistoNul
    /\ choix = Vide
    /\ possibilites = Vide
    /\ SansStats

\* one iteration of `for num_comb in 0..nb_comb`
Tirer ==
    /\ pc = "tirages"
    /\ num_comb < NbComb(nb_des)
    /\ comptage_choix' = Tirage(comptage_choix, nb_des, num_comb)
    /\ num_comb' = num_comb + 1
    /\ UNCHANGED <<pc, nb_des, choix_et_probas, stats_choix, histo, choix, possibilites,
                   varsStats>>

\* end of enumerer_choix: counts become probabilities
Normaliser ==
    /\ pc = "tirages"
    /\ num_comb = NbComb(nb_des)
    /\ choix_et_probas' = Normer(comptage_choix, nb_des)
    /\ pc' = "choix"
    /\ UNCHANGED <<nb_des, num_comb, comptage_choix, stats_choix, histo, choix, possibilites,
                   varsStats>>

\* the rest of StatsJet::new
StatsJetNew ==
    /\ pc = "choix"
    /\ stats_choix' = StatsChoix(nb_des, choix_et_probas)
    /\ pc' = "stats"
    /\ UNCHANGED <<nb_des, num_comb, comptage_choix, choix_et_probas, histo, choix,
                   possibilites, varsStats>>

NextChoix == Tirer \/ Normaliser \/ StatsJetNew

SpecChoix == InitChoix /\ [][NextChoix]_vars

----------------------------------------------------------------------------
(* Specification of enumerer_combinaisons on every histogram of at most    *)
(* NB_DES_TOT dice, followed by the annotation of StatsJet::new            *)

Histogrammes ==
    { h \in [Faces -> 0 .. NB_DES_TOT] : TotalDes(h) <= NB_DES_TOT }

InitHisto ==
    /\ pc = "histo"
    /\ histo \in Histogrammes
    /\ choix = Vide
    /\ possibilites = Vide
    /\ nb_des = TotalDes(histo)
    /\ num_comb = 0
    /\ comptage_choix = Vide
    /\ choix_et_probas = Vide
    /\ stats_choix = Vide
    /\ SansStats

Enumerer ==
    /\ pc = "histo"
    /\ choix' = enumerer_combinaisons(histo)
    /\ pc' = "combinaisons"
    /\ UNCHANGED <<nb_des, num_comb, comptage_choix, choix_et_probas, stats_choix,
                   histo, possibilites, varsStats>>

\* StatsJet::new only annotates the non-bust choices
AnnoterChoix ==
    /\ pc = "combinaisons"
    /\ choix # Vide
    /\ possibilites' = Annoter(nb_des, choix)
    /\ pc' = "possibilites"
    /\ UNCHANGED <<nb_des, num_comb, comptage_choix, choix_et_probas, stats_choix,
                   histo, choix, varsStats>>

NextHisto == Enumerer \/ AnnoterChoix

SpecHisto == InitHisto /\ [][NextHisto]_vars

\* the histograms of n dice
HistosDe == [n \in 0 .. NB_DES_TOT |-> { h \in Histogrammes : TotalDes(h) = n }]

----------------------------------------------------------------------------
(* stats.rs: Stats::new *)

SCORE_MAX == 10000

\* Valeur = u16: the sums of scores wrap at 2^16
U16(x) == x % 65536

\* the tally of two ranges of raw rolls, keys in the order of their first roll
Fusion(a, b) ==
    LET ca == Cles(a)
        cb == Cles(b)
        Nouveau(e) == e.choix \notin ca
    IN  [i \in DOMAIN a |->
            IF a[i].choix \in cb
            THEN [a[i] EXCEPT !.compte = @ + b[Indice(b, a[i].choix)].compte]
            ELSE a[i]]
        \o SelectSeq(b, Nouveau)

RECURSIVE Comptage(_, _, _)
\* comptage_choix after the rolls lo..hi of `for num_comb in 0..nb_comb`
Comptage(n, lo, hi) ==
    IF lo = hi THEN Tirage(Vide, n, lo)
    ELSE LET mid == (lo + hi) \div 2
         IN  Fusion(Comptage(n, lo, mid), Comptage(n, mid + 1, hi))

\* enumerer_choix(nb_des)
enumerer_choix(n) == Normer(Comptage(n, 0, NbComb(n) - 1), n)

\* StatsJet::new(nb_des).stats_choix
StatsJetDe(n) == StatsChoix(n, enumerer_choix(n))

\* Stats::new().stats_jets
StatsNew == [n \in 1 .. NB_DES_TOT |-> StatsJetDe(n)]

CachesVides == [n \in 1 .. NB_DES_TOT |-> Vide]

----------------------------------------------------------------------------
(* stats.rs: calcul_esperance and calcul_proba_fin *)

\* a call calcul_*(score, nb_des, mise, max_relances)
Cadre(score, n, mise, max_relances) ==
    [score |-> score, nb_des |-> n, mise |-> mise, max_relances |-> max_relances]

\* its key in the cache of its dice count
Cle(f) == <<f.score, f.mise, f.max_relances>>

EnCacheMut(cache, f) == FALSE

\* `if let Some(..) = cache.borrow().get(&(score, mise, max_relances))`
EnCache(cache, f) == Cle(f) \in DOMAIN cache[f.nb_des]

Lire(cache, f) == cache[f.nb_des][Cle(f)]

\* cache.borrow_mut().insert(key, v) returned Some(_)
DejaInsere(cache, f) == Cle(f) \in DOMAIN cache[f.nb_des]

Inserer(cache, f, v) == [cache EXCEPT ![f.nb_des] = (Cle(f) :> v) @@ @]

MaxNat(S) == CHOOSE m \in UNION { { x \in T : \A y \in T : x >= y } : T \in {S} } : TRUE
MinNat(S) == CHOOSE m \in UNION { { x \in T : \A y \in T : x <= y } : T \in {S} } : TRUE

\* the greatest of a non-empty set of Flottant
FlMaxSet(S) ==
    CHOOSE m \in UNION { { x \in T : \A y \in T : FlGeq(x, y) } : T \in {S} } : TRUE

\* stats_choix.choix.iter().map(|poss| poss.valeur).max().unwrap()
ValeurMax(sc) == MaxNat({ sc.choix[k].valeur : k \in DOMAIN sc.choix })

NouvelleMise(mise, poss) == U16(mise + poss.valeur)

\* `if score + nouvelle_mise >= SCORE_MAX { continue; }`
SansRelance(score, nouvelle_mise) == U16(score + nouvelle_mise) >= SCORE_MAX

RelancesMut(f, poss) ==
    IF SansRelance(f.score, NouvelleMise(f.mise, poss)) THEN {}
    ELSE { Cadre(f.score, poss.nb_des_relance, NouvelleMise(f.mise, poss), num) :
              num \in 1 .. f.max_relances }

\* the recursive calls made for one possibility:
\* `for num_relances in 1..=max_relances`, called with num_relances - 1
Relances(f, poss) ==
    IF SansRelance(f.score, NouvelleMise(f.mise, poss)) THEN {}
    ELSE { Cadre(f.score, poss.nb_des_relance, NouvelleMise(f.mise, poss), num - 1) :
              num \in 1 .. f.max_relances }

Manquantes(cache, f, poss) == { e \in Relances(f, poss) : ~EnCache(cache, e) }

\* the choices of sj for which a recursive call of f is not in the cache
ChoixManquants(cache, sj, f) ==
    { i \in DOMAIN sj :
        \E k \in DOMAIN sj[i].choix : Manquantes(cache, f, sj[i].choix[k]) # {} }

\* the first recursive call of f, in the order of the loops, that misses the cache
PremiereManquante(cache, sj, f) ==
    LET Appel(poss) ==
            Cadre(f.score, poss.nb_des_relance, NouvelleMise(f.mise, poss),
                  MinNat({ e.max_relances : e \in Manquantes(cache, f, poss) }))
        Dans(sc) ==
            CHOOSE c \in { Appel(sc.choix[k]) :
                             k \in { MinNat({ j \in DOMAIN sc.choix :
                                                Manquantes(cache, f, sc.choix[j]) # {} }) } } : TRUE
    IN  CHOOSE c \in { Dans(sj[i]) : i \in { MinNat(ChoixManquants(cache, sj, f)) } } : TRUE

ArretPossibleMut(score, mise, valeur_max) ==
    U16(U16(score + mise) + valeur_max) < SCORE_MAX

\* arret_possible
ArretPossible(score, mise, valeur_max) ==
    U16(U16(score + mise) + valeur_max) <= SCORE_MAX

\* the values folded into esperance_max when stopping is allowed
Arrets(sc, f) ==
    IF ArretPossible(f.score, f.mise, ValeurMax(sc))
    THEN { FlFromNat(NouvelleMise(f.mise, sc.choix[k])) : k \in DOMAIN sc.choix }
    ELSE {}

\* the values returned by the recursive calls made for the choice sc
ValeursRelances(cache, sc, f) ==
    UNION { { Lire(cache, e) : e \in Relances(f, sc.choix[k]) } : k \in DOMAIN sc.choix }

EsperanceMaxMut(cache, sc, f) ==
    IF ValeursRelances(cache, sc, f) # {}
    THEN FlMaxSet(ValeursRelances(cache, sc, f))
    ELSE FlMaxSet({FlZero} \cup Arrets(sc, f))

\* esperance_max of one choice, every recursive call being in the cache
EsperanceMax(cache, sc, f) ==
    FlMaxSet({FlZero} \cup Arrets(sc, f) \cup ValeursRelances(cache, sc, f))

RECURSIVE SommeEsperance(_, _, _, _, _)
\* esperance_lancer += esperance_max * stats_choix.proba, over the choices lo..hi
SommeEsperance(cache, sj, f, lo, hi) ==
    IF lo > hi THEN FlZero
    ELSE IF lo = hi THEN FlMul(EsperanceMax(cache, sj[lo], f), sj[lo].proba)
    ELSE LET mid == (lo + hi) \div 2
         IN  FlAdd(SommeEsperance(cache, sj, f, lo, mid),
                   SommeEsperance(cache, sj, f, mid + 1, hi))

\* the value calcul_esperance computes for f
EsperanceLancer(cache, sj, f) == SommeEsperance(cache, sj, f, 1, Len(sj))

\* `if score + mise + valeur_max == 10000 { 1. } else { 0. }`
Gagne(sc, f) ==
    IF U16(U16(f.score + f.mise) + ValeurMax(sc)) = 10000 THEN FlOne ELSE FlZero

\* proba_fin_max of one choice, every recursive call being in the cache
ProbaFinMax(cache, sc, f) ==
    FlMaxSet({Gagne(sc, f)} \cup ValeursRelances(cache, sc, f))

RECURSIVE SommeProbaFin(_, _, _, _, _)
\* proba_fin_partie += proba_fin_max * stats_choix.proba, over the choices lo..hi
SommeProbaFin(cache, sj, f, lo, hi) ==
    IF lo > hi THEN FlZero
    ELSE IF lo = hi THEN FlMul(ProbaFinMax(cache, sj[lo], f), sj[lo].proba)
    ELSE LET mid == (lo + hi) \div 2
         IN  FlAdd(SommeProbaFin(cache, sj, f, lo, mid),
                   SommeProbaFin(cache, sj, f, mid + 1, hi))

\* the value calcul_proba_fin computes for f
ProbaFinPartie(cache, sj, f) == SommeProbaFin(cache, sj, f, 1, Len(sj))

----------------------------------------------------------------------------
(* stats.rs: the values of calcul_esperance and calcul_proba_fin.  The cache *)
(* only saves work: a call returns what its loops compute from the values   *)
(* of its recursive calls.                                                  *)

\* the recursive calls of f
Enfants(st, f) ==
    UNION { UNION { Relances(f, sc.choix[k]) : k \in DOMAIN sc.choix } :
               sc \in Range(st[f.nb_des]) }

\* the cache holding the pairs <<call, value>> of vals
CacheDe(vals) ==
    [n \in 1 .. NB_DES_TOT |->
        [k \in { Cle(p[1]) : p \in { q \in vals : q[1].nb_des = n } } |->
            (CHOOSE p \in vals : p[1].nb_des = n /\ Cle(p[1]) = k)[2]]]

RECURSIVE calcul_esperance(_, _)
\* the value of calcul_esperance(f.score, f.nb_des, f.mise, f.max_relances)
calcul_esperance(st, f) ==
    LET vals == { <<e, calcul_esperance(st, e)>> : e \in Enfants(st, f) }
    IN  EsperanceLancer(CacheDe(vals), st[f.nb_des], f)

RECURSIVE calcul_proba_fin(_, _)
\* the value of calcul_proba_fin(f.score, f.nb_des, f.mise, f.max_relances)
calcul_proba_fin(st, f) ==
    LET vals == { <<e, calcul_proba_fin(st, e)>> : e \in Enfants(st, f) }
    IN  ProbaFinPartie(CacheDe(vals), st[f.nb_des], f)

----------------------------------------------------------------------------
(* Specification of the queries made on one Stats *)

\* number of calls made on one Stats
MaxRequetes == 2
\* cap of the loop counter of Stats::esperance
MaxRelances == 5

\* the arguments (score, nb_des, mise) of the calls
Requetes == { <<9850, 6, 0>>, <<9850, 5, 50>>, <<9900, 6, 50>> }
\* the argument max_relances of the calls of proba_fin
RelancesProba == {2}

\* the arguments of a call of Stats::esperance or Stats::proba_fin
Requete(fn, score, n, mise, max_relances) ==
    [fn |-> fn, score |-> score, nb_des |-> n, mise |-> mise,
     max_relances |-> max_relances]

Sommet == pile[Len(pile)]
Depiler == SubSeq(pile, 1, Len(pile) - 1)

InitStats ==
    /\ stats_jets = StatsNew
    /\ pc = "repos"
    /\ esperance = CachesVides
    /\ proba_fin = CachesVides
    /\ requete = Aucune
    /\ num_relances = 0
    /\ ancienne = FlZero
    /\ pile = Vide
    /\ retour = Vide
    /\ resultat = Vide
    /\ panique = "non"
    /\ nb_requetes = 0
    /\ nb_des = 0
    /\ num_comb = 0
    /\ comptage_choix = Vide
    /\ choix_et_probas = Vide
    /\ stats_choix = Vide
    /\ histo = HistoNul
    /\ choix = Vide
    /\ possibilites = Vide

\* a caller enters Stats::esperance(score, nb_des, mise)
AppelEsperance(score, n, mise) ==
    /\ pc = "repos"
    /\ nb_requetes < MaxRequetes
    /\ pc' = "esperance"
    /\ requete' = Requete("esperance", score, n, mise, 0)
    /\ num_relances' = 0
    /\ ancienne' = FlZero
    /\ retour' = Vide
    /\ nb_requetes' = nb_requetes + 1
    /\ UNCHANGED <<varsChoix, stats_jets, esperance, proba_fin, pile, resultat, panique>>

\* a caller enters Stats::proba_fin(score, nb_des, mise, max_relances)
AppelProbaFin(score, n, mise, max_relances) ==
    /\ pc = "repos"
    /\ nb_requetes < MaxRequetes
    /\ pc' = "proba_fin"
    /\ requete' = Requete("proba_fin", score, n, mise, max_relances)
    /\ num_relances' = 0
    /\ ancienne' = FlZero
    /\ retour' = Vide
    /\ nb_requetes' = nb_requetes + 1
    /\ UNCHANGED <<varsChoix, stats_jets, esperance, proba_fin, pile, resultat, panique>>

CadreBoucleMut == Cadre(requete.score, requete.nb_des, requete.mise, num_relances + 1)

\* the call of the loop body
CadreBoucle == Cadre(requete.score, requete.nb_des, requete.mise, num_relances)

\* the loop calls calcul_esperance: a cache hit returns, a miss starts computing
CalculEsperance ==
    /\ pc = "esperance"
    /\ pile = Vide
    /\ retour = Vide
    /\ IF EnCache(esperance, CadreBoucle)
       THEN retour' = <<Lire(esperance, CadreBoucle)>> /\ pile' = pile
       ELSE retour' = retour /\ pile' = <<CadreBoucle>>
    /\ UNCHANGED <<pc, varsChoix, stats_jets, esperance, proba_fin, requete,
                   num_relances, ancienne, resultat, panique, nb_requetes>>

\* the running calcul_esperance makes a recursive call that misses the cache
RelancerEsperance ==
    /\ pc = "esperance"
    /\ pile # Vide
    /\ ChoixManquants(esperance, stats_jets[Sommet.nb_des], Sommet) # {}
    /\ pile' = Append(pile, PremiereManquante(esperance, stats_jets[Sommet.nb_des], Sommet))
    /\ UNCHANGED <<pc, varsChoix, stats_jets, esperance, proba_fin, requete,
                   num_relances, ancienne, retour, resultat, panique, nb_requetes>>

\* the running calcul_esperance, its recursive calls served, caches its result
\* (assert_eq!(insert(..), None)) and returns
RetourEsperance ==
    /\ pc = "esperance"
    /\ pile # Vide
    /\ ChoixManquants(esperance, stats_jets[Sommet.nb_des], Sommet) = {}
    /\ IF DejaInsere(esperance, Sommet)
       THEN /\ panique' = "assert_eq"
            /\ pc' = "panique"
            /\ UNCHANGED <<esperance, pile, retour>>
       ELSE \E v \in { EsperanceLancer(esperance, stats_jets[Sommet.nb_des], Sommet) } :
                /\ esperance' = Inserer(esperance, Sommet, v)
                /\ pile' = Depiler
                /\ retour' = IF Len(pile) = 1 THEN <<v>> ELSE retour
                /\ UNCHANGED <<pc, panique>>
    /\ UNCHANGED <<varsChoix, stats_jets, proba_fin, requete, num_relances, ancienne,
                   resultat, nb_requetes>>

ConvergeMut(v, a) == FlLess(v, a)

\* `if esperance == ancienne_esperance`
Converge(v, a) == v = a

\* the rest of the body of the loop of Stats::esperance
BoucleEsperance ==
    /\ pc = "esperance"
    /\ pile = Vide
    /\ retour # Vide
    /\ LET v == retour[1]
       IN  IF ~FlGeq(v, ancienne)
           THEN /\ panique' = "assert_esperance"
                /\ pc' = "panique"
                /\ UNCHANGED <<num_relances, ancienne, retour, resultat>>
           ELSE IF Converge(v, ancienne)
           THEN /\ resultat' = <<v>>
                /\ pc' = "repos"
                /\ retour' = Vide
                /\ UNCHANGED <<num_relances, ancienne, panique>>
           ELSE /\ num_relances < MaxRelances
                /\ ancienne' = v
                /\ num_relances' = num_relances + 1
                /\ retour' = Vide
                /\ UNCHANGED <<pc, resultat, panique>>
    /\ UNCHANGED <<varsChoix, stats_jets, esperance, proba_fin, requete, pile,
                   nb_requetes>>

\* the loop, or the last line, of proba_fin calls calcul_proba_fin
CalculProbaFin ==
    /\ pc = "proba_fin"
    /\ pile = Vide
    /\ retour = Vide
    /\ IF EnCache(proba_fin, CadreBoucle)
       THEN retour' = <<Lire(proba_fin, CadreBoucle)>> /\ pile' = pile
       ELSE retour' = retour /\ pile' = <<CadreBoucle>>
    /\ UNCHANGED <<pc, varsChoix, stats_jets, esperance, proba_fin, requete,
                   num_relances, ancienne, resultat, panique, nb_requetes>>

\* the running calcul_proba_fin makes a recursive call that misses the cache
RelancerProbaFin ==
    /\ pc = "proba_fin"
    /\ pile # Vide
    /\ ChoixManquants(proba_fin, stats_jets[Sommet.nb_des], Sommet) # {}
    /\ pile' = Append(pile, PremiereManquante(proba_fin, stats_jets[Sommet.nb_des], Sommet))
    /\ UNCHANGED <<pc, varsChoix, stats_jets, esperance, proba_fin, requete,
                   num_relances, ancienne, retour, resultat, panique, nb_requetes>>

\* the running calcul_proba_fin caches its result and returns
RetourProbaFin ==
    /\ pc = "proba_fin"
    /\ pile # Vide
    /\ ChoixManquants(proba_fin, stats_jets[Sommet.nb_des], Sommet) = {}
    /\ IF DejaInsere(proba_fin, Sommet)
       THEN /\ panique' = "assert_eq"
            /\ pc' = "panique"
            /\ UNCHANGED <<proba_fin, pile, retour>>
       ELSE \E v \in { ProbaFinPartie(proba_fin, stats_jets[Sommet.nb_des], Sommet) } :
                /\ proba_fin' = Inserer(proba_fin, Sommet, v)
                /\ pile' = Depiler
                /\ retour' = IF Len(pile) = 1 THEN <<v>> ELSE retour
                /\ UNCHANGED <<pc, panique>>
    /\ UNCHANGED <<varsChoix, stats_jets, esperance, requete, num_relances, ancienne,
                   resultat, nb_requetes>>

\* `if proba > 0. && proba == ancienne_proba`
Stationnaire(v, a) == FlLess(FlZero, v) /\ v = a

\* the rest of the body of the loop of Stats::proba_fin, and its last line
BoucleProbaFin ==
    /\ pc = "proba_fin"
    /\ pile = Vide
    /\ retour # Vide
    /\ LET v == retour[1]
       IN  IF num_relances >= requete.max_relances
           THEN /\ resultat' = <<v>>
                /\ pc' = "repos"
                /\ retour' = Vide
                /\ UNCHANGED <<num_relances, ancienne, panique>>
           ELSE IF ~FlGeq(v, ancienne)
           THEN /\ panique' = "assert_proba"
                /\ pc' = "panique"
                /\ UNCHANGED <<num_relances, ancienne, retour, resultat>>
           ELSE IF Stationnaire(v, ancienne)
           THEN /\ resultat' = <<v>>
                /\ pc' = "repos"
                /\ retour' = Vide
                /\ UNCHANGED <<num_relances, ancienne, panique>>
           ELSE /\ ancienne' = v
                /\ num_relances' = num_relances + 1
                /\ retour' = Vide
                /\ UNCHANGED <<pc, resultat, panique>>
    /\ UNCHANGED <<varsChoix, stats_jets, esperance, proba_fin, requete, pile,
                   nb_requetes>>

Appels ==
    \/ \E r \in Requetes : AppelEsperance(r[1], r[2], r[3])
    \/ \E r \in Requetes, max_relances \in RelancesProba :
          AppelProbaFin(r[1], r[2], r[3], max_relances)

Calculs ==
    \/ CalculEsperance
    \/ RelancerEsperance
    \/ RetourEsperance
    \/ BoucleEsperance
    \/ CalculProbaFin
    \/ RelancerProbaFin
    \/ RetourProbaFin
    \/ BoucleProbaFin

NextStats == Appels \/ Calculs

SpecStats == InitStats /\ [][NextStats]_vars

\* the program runs a call to its end
SpecStatsEquitable == SpecStats /\ WF_vars(Calculs)

----------------------------------------------------------------------------
(* Specification of calls of Stats::esperance, on one Stats, at states from *)
(* which one reroll does not pay and two do                                 *)

RequetesPlateau == { <<9650, 1, 100>>, <<9650, 2, 50>>, <<9600, 1, 150>>, <<9600, 2, 100>> }

AppelPlateau == \E r \in RequetesPlateau : AppelEsperance(r[1], r[2], r[3])

NextPlateau ==
    \/ AppelPlateau
    \/ CalculEsperance
    \/ RelancerEsperance
    \/ RetourEsperance
    \/ BoucleEsperance

SpecPlateau == InitStats /\ [][NextPlateau]_vars

----------------------------------------------------------------------------
(* Specification of calcul_esperance without reroll (max_relances = 0), on a  *)
(* new Stats: the first call made by the loop of Stats::esperance            *)

ScoresArret == {0, 9000, 9500, 9900}
MisesArret == {0, 50, 500, 1000}

InitArret ==
    /\ stats_jets = StatsNew
    /\ pc = "esperance"
    /\ esperance = CachesVides
    /\ proba_fin = CachesVides
    /\ requete \in { Requete("esperance", score, n, mise, 0) :
                        score \in ScoresArret, n \in 1 .. NB_DES_TOT, mise \in MisesArret }
    /\ num_relances = 0
    /\ ancienne = FlZero
    /\ pile = Vide
    /\ retour = Vide
    /\ resultat = Vide
    /\ panique = "non"
    /\ nb_requetes = 1
    /\ nb_des = 0
    /\ num_comb = 0
    /\ comptage_choix = Vide
    /\ choix_et_probas = Vide
    /\ stats_choix = Vide
    /\ histo = HistoNul
    /\ choix = Vide
    /\ possibilites = Vide

NextArret == CalculEsperance \/ RetourEsperance

SpecArret == InitArret /\ [][NextArret]_vars

----------------------------------------------------------------------------
(* Properties of the enumeration (choix.rs) and of StatsJet::new *)

RECURSIVE SommeComptes(_, _, _)
SommeComptes(m, lo, hi) ==
    IF lo > hi THEN 0
    ELSE IF lo = hi THEN m[lo].compte
    ELSE LET mid == (lo + hi) \div 2
         IN  SommeComptes(m, lo, mid) + SommeComptes(m, mid + 1, hi)

RECURSIVE SommeProbas(_, _, _)
SommeProbas(m, lo, hi) ==
    IF lo > hi THEN FlZero
    ELSE IF lo = hi THEN m[lo].proba
    ELSE LET mid == (lo + hi) \div 2
         IN  FlAdd(SommeProbas(m, lo, mid), SommeProbas(m, mid + 1, hi))

ClesDistinctes(m) == \A i, j \in DOMAIN m : m[i].choix = m[j].choix => i = j

\* C1: every raw roll enumerated so far is tallied in exactly one choice-set
\* (the occurrence counts sum to the number of rolls done, 6^n at the end),
\* and the probabilities returned by enumerer_choix, bust included, sum to 1.
C1_ComptesEtProbas ==
    /\ SommeComptes(comptage_choix, 1, Len(comptage_choix)) = num_comb
    /\ pc \in {"choix", "stats"} =>
          /\ num_comb = Pow(6, nb_des)
          /\ ClesDistinctes(choix_et_probas)
          /\ Cles(choix_et_probas) = Cles(comptage_choix)
          /\ SommeProbas(choix_et_probas, 1, Len(choix_et_probas)) = FlOne

C1_Witness ==
    /\ pc = "choix"
    /\ nb_des = 3
    /\ Vide \in Cles(choix_et_probas)
    /\ Len(choix_et_probas) > 2

\* C2: in the table built by StatsJet::new for n dice, every combination
\* costs at most n dice, and its reroll dice count is n - cost when that is
\* positive and 6 when it is 0: it is always in 1..6.
C2_DesRelance ==
    pc = "stats" =>
        \A k \in DOMAIN stats_choix : \A i \in DOMAIN stats_choix[k].choix :
            LET p == stats_choix[k].choix[i]
                cout == NbDes(p.comb)
            IN  /\ cout <= nb_des
                /\ p.nb_des_relance = (IF nb_des - cout > 0 THEN nb_des - cout ELSE 6)
                /\ p.nb_des_relance \in 1 .. 6

C2_Witness ==
    /\ pc = "stats"
    /\ \E k \in DOMAIN stats_choix : \E i \in DOMAIN stats_choix[k].choix :
          LET p == stats_choix[k].choix[i]
          IN  NbDes(p.comb) = nb_des /\ p.nb_des_relance = 6
    /\ \E k \in DOMAIN stats_choix : \E i \in DOMAIN stats_choix[k].choix :
          LET p == stats_choix[k].choix[i]
          IN  NbDes(p.comb) < nb_des /\ p.nb_des_relance = nb_des - NbDes(p.comb)

EstBrelanDouble(c) == c.type = "BrelanDouble"

\* C7: every BrelanDouble returned by enumerer_combinaisons has its two face
\* indices in non-decreasing order, and no unordered pair of faces is
\* returned twice.
C7_BrelanDoubleTrie ==
    pc # "histo" =>
        /\ \A i \in DOMAIN choix :
              EstBrelanDouble(choix[i]) => choix[i].idx_face <= choix[i].idx_face_2
        /\ \A i, j \in DOMAIN choix :
              (/\ i # j
               /\ EstBrelanDouble(choix[i])
               /\ EstBrelanDouble(choix[j]))
              => {choix[i].idx_face, choix[i].idx_face_2}
                    # {choix[j].idx_face, choix[j].idx_face_2}

C7_Witness ==
    /\ pc = "combinaisons"
    /\ \E i \in DOMAIN choix :
          EstBrelanDouble(choix[i]) /\ choix[i].idx_face < choix[i].idx_face_2

EstFacesSimples(c) == c.type = "FacesSimples"

\* C8: a FacesSimples with fives has exactly histo[one] mod 3 ones and between
\* 1 and histo[five] mod 3 fives; a FacesSimples without fives has between 1
\* and histo[one] mod 3 ones; never three ones or three fives.
C8_FacesSimples ==
    pc # "histo" =>
        \A i \in DOMAIN choix :
            EstFacesSimples(choix[i]) =>
                LET un == choix[i].nb_un
                    cinq == choix[i].nb_cinq
                IN  /\ cinq >= 1 => /\ un = histo[0] % 3
                                    /\ cinq <= histo[4] % 3
                    /\ cinq = 0 => /\ 1 <= un
                                   /\ un <= histo[0] % 3
                    /\ un < 3
                    /\ cinq < 3

C8_Witness ==
    /\ pc = "combinaisons"
    /\ histo[0] = 4
    /\ histo[4] = 2
    /\ \E i \in DOMAIN choix :
          EstFacesSimples(choix[i]) /\ choix[i].nb_un = 1 /\ choix[i].nb_cinq = 2

SansDoublon(s) == \A i, j \in DOMAIN s : s[i] = s[j] => i = j

\* C9: the sequence returned for a histogram of 1..6 dice has no duplicate,
\* and any histogram of the same dice count offering the same set of
\* combinations gets the same sequence (the same key of the tally).
C9_Canonique ==
    (pc = "combinaisons" /\ nb_des >= 1) =>
        /\ SansDoublon(choix)
        /\ \A h \in HistosDe[nb_des] :
              LET choix_h == enumerer_combinaisons(h)
              IN  Range(choix_h) = Range(choix) => choix_h = choix

C9_Witness ==
    /\ pc = "combinaisons"
    /\ histo = [f \in Faces |-> CASE f = 0 -> 2 [] f = 1 -> 1 [] f = 4 -> 1 [] OTHER -> 0]
    /\ Len(choix) = 3
    /\ choix = enumerer_combinaisons(
                  [f \in Faces |-> CASE f = 0 -> 2 [] f = 2 -> 1 [] f = 4 -> 1 [] OTHER -> 0])

TroisUn == [f \in Faces |-> IF f = 0 THEN 3 ELSE 0]

\* C10 as stated: three dice all showing one offer exactly
\* BrelanSimple(one, 0, 0), worth 1000 for 3 dice, and the reroll is with 3
\* dice.
C10_Original ==
    (pc = "possibilites" /\ histo = TroisUn) =>
        /\ choix = <<BrelanSimple(0, 0, 0)>>
        /\ possibilites[1].valeur = 1000
        /\ NbDes(possibilites[1].comb) = 3
        /\ possibilites[1].nb_des_relance = 3

\* C10 amended: three dice all showing one offer exactly
\* BrelanSimple(one, 0, 0), worth 1000 for 3 dice; all the dice in hand are
\* consumed, so the reroll is with NB_DES_TOT = 6 dice.
C10_TroisUn ==
    (pc = "possibilites" /\ histo = TroisUn) =>
        /\ choix = <<BrelanSimple(0, 0, 0)>>
        /\ Len(possibilites) = 1
        /\ possibilites[1].comb = BrelanSimple(0, 0, 0)
        /\ possibilites[1].valeur = 1000
        /\ NbDes(possibilites[1].comb) = 3
        /\ possibilites[1].nb_des_relance = NB_DES_TOT

C10_Witness ==
    /\ pc = "possibilites"
    /\ histo = TroisUn
    /\ nb_des = 3

----------------------------------------------------------------------------
(* Properties of the solver (stats.rs) *)

\* the cache of the running calcul_*
CacheCourant == IF pc = "proba_fin" THEN proba_fin ELSE esperance

\* every recursive call has a greater stake and a smaller bound than its caller
PileCroissante ==
    \A i \in 1 .. (Len(pile) - 1) :
        /\ pile[i + 1].score = pile[i].score
        /\ pile[i + 1].mise > pile[i].mise
        /\ pile[i + 1].max_relances < pile[i].max_relances

\* C3: the assert_eq!(insert(..), None) of calcul_esperance and
\* calcul_proba_fin never fails: from its cache lookup to its insertion, the
\* key a call computes is absent from the cache, every call below it having a
\* strictly greater stake and a strictly smaller bound.
C3_InsertionUnique ==
    /\ panique # "assert_eq"
    /\ PileCroissante
    /\ \A i \in DOMAIN pile : ~DejaInsere(CacheCourant, pile[i])

C3_Witness ==
    /\ nb_requetes = 2
    /\ pc = "proba_fin"
    /\ Len(pile) >= 2
    /\ \E n \in 1 .. NB_DES_TOT : esperance[n] # Vide
    /\ \E k \in DOMAIN stats_jets[Sommet.nb_des] :
          \E j \in DOMAIN stats_jets[Sommet.nb_des][k].choix :
             \E e \in Relances(Sommet, stats_jets[Sommet.nb_des][k].choix[j]) :
                 EnCache(proba_fin, e)

CleSuivante(k) == <<k[1], k[2], k[3] + 1>>

\* C4: the cached values of calcul_esperance are non-negative and do not
\* decrease when the bound grows by one, and the assertion
\* esperance >= ancienne_esperance of the loop never fails.
C4_Monotone ==
    /\ panique # "assert_esperance"
    /\ \A n \in DOMAIN esperance : \A k \in DOMAIN esperance[n] :
          /\ FlGeq(esperance[n][k], FlZero)
          /\ CleSuivante(k) \in DOMAIN esperance[n]
                => FlGeq(esperance[n][CleSuivante(k)], esperance[n][k])

C4_Witness ==
    /\ pc = "esperance"
    /\ num_relances >= 2
    /\ FlLess(FlZero, ancienne)
    /\ \E n \in DOMAIN esperance : \E k \in DOMAIN esperance[n] :
          /\ CleSuivante(k) \in DOMAIN esperance[n]
          /\ FlLess(esperance[n][k], esperance[n][CleSuivante(k)])

\* the number of rerolls that can follow one another from (score, mise), each
\* adding at least 50 to the stake and allowed below SCORE_MAX only
Profondeur(score, mise) ==
    IF score + mise >= SCORE_MAX THEN 0 ELSE (SCORE_MAX - 1 - score - mise) \div 50

\* C5: a call of Stats::esperance returns: every calcul_esperance it makes
\* returns, and the loop stops at a bound at most one above the number of
\* rerolls that fit under SCORE_MAX.
C5_Termine ==
    /\ (pc = "esperance") ~> (pc = "repos")
    /\ [](pc = "esperance" =>
            /\ num_relances <= Profondeur(requete.score, requete.mise) + 1
            /\ \A i \in DOMAIN pile : pile[i].max_relances <= num_relances)

C5_Witness ==
    /\ pc = "repos"
    /\ requete = Requete("esperance", 9850, 6, 0, 0)
    /\ resultat # Vide
    /\ resultat[1] = ancienne
    /\ num_relances >= 2

\* the greatest value of the combinations of a choice
MeilleureValeur(sc) == MaxNat({ Valeur(sc.choix[k].comb) : k \in DOMAIN sc.choix })

\* stake + the greatest value when that stays within SCORE_MAX, else 0
ValeurArret(sc, score, mise) ==
    IF score + mise + MeilleureValeur(sc) <= SCORE_MAX
    THEN FlFromNat(mise + MeilleureValeur(sc))
    ELSE FlZero

RECURSIVE SommeArrets(_, _, _, _, _)
SommeArrets(sj, score, mise, lo, hi) ==
    IF lo > hi THEN FlZero
    ELSE IF lo = hi THEN FlMul(sj[lo].proba, ValeurArret(sj[lo], score, mise))
    ELSE LET mid == (lo + hi) \div 2
         IN  FlAdd(SommeArrets(sj, score, mise, lo, mid),
                   SommeArrets(sj, score, mise, mid + 1, hi))

UnDeChaque == [f \in Faces |-> 1]

\* C6: without reroll the value of a state is the sum over the non-bust
\* choices of probability x (stake + greatest value of the choice), a choice
\* that would pass SCORE_MAX counting 0; the choice of the roll showing one of
\* each face holds Suite and counts stake + 500.
C6_SansRelance ==
    (retour # Vide /\ num_relances = 0) =>
        LET sj == stats_jets[requete.nb_des]
            f == CadreBoucle
        IN  /\ retour[1] = SommeArrets(sj, requete.score, requete.mise, 1, Len(sj))
            /\ EnCache(esperance, f) /\ Lire(esperance, f) = retour[1]
            /\ \A i \in DOMAIN sj :
                  EsperanceMax(esperance, sj[i], f)
                     = ValeurArret(sj[i], requete.score, requete.mise)
            /\ requete.nb_des = 6 =>
                  \E i \in DOMAIN sj :
                     /\ [k \in DOMAIN sj[i].choix |-> sj[i].choix[k].comb]
                           = enumerer_combinaisons(UnDeChaque)
                     /\ \E k \in DOMAIN sj[i].choix : sj[i].choix[k].comb = Suite
                     /\ MeilleureValeur(sj[i]) = 500
                     /\ requete.score + requete.mise + 500 <= SCORE_MAX
                           => EsperanceMax(esperance, sj[i], f)
                                 = FlFromNat(requete.mise + 500)

C6_Witness ==
    /\ retour # Vide
    /\ requete = Requete("esperance", 9500, 6, 0, 0)
    /\ FlLess(FlZero, retour[1])

----------------------------------------------------------------------------
(* Properties of the bust choice *)

\* the entries of a tally or of a probability map whose choice is empty
Pertes(m) == { i \in DOMAIN m : m[i].choix = Vide }

\* the raw rolls of one die, among the first num, showing neither one nor five
FacesPerdantes(num) == { f \in 0 .. (num - 1) : f \notin {0, 4} }

\* C11: with one die a roll showing a face other than one or five yields the
\* empty choice, a roll showing one or five a non-empty one; the tally counts
\* the losing rolls made so far, 4 of the 6 in the end, and the probability
\* of the empty choice is 4/6.
C11_UnDe ==
    nb_des = 1 =>
        /\ \A f \in Faces :
              (enumerer_combinaisons([g \in Faces |-> IF g = f THEN 1 ELSE 0]) = Vide)
                 <=> f \notin {0, 4}
        /\ pc = "tirages" =>
              /\ Cardinality(Pertes(comptage_choix)) <= 1
              /\ \A i \in Pertes(comptage_choix) :
                    comptage_choix[i].compte = Cardinality(FacesPerdantes(num_comb))
              /\ (Pertes(comptage_choix) = {}) <=> (FacesPerdantes(num_comb) = {})
              /\ num_comb = NbComb(1) => Cardinality(FacesPerdantes(num_comb)) = 4
        /\ pc \in {"choix", "stats"} =>
              /\ Cardinality(Pertes(choix_et_probas)) = 1
              /\ \A i \in Pertes(choix_et_probas) :
                    FlMul(choix_et_probas[i].proba, FlFromNat(6)) = FlFromNat(4)

C11_Witness ==
    /\ nb_des = 1
    /\ pc = "choix"
    /\ \E i \in Pertes(choix_et_probas) : FlLess(FlZero, choix_et_probas[i].proba)
    /\ Len(choix_et_probas) = 3

\* C12: for every number of dice the map returned by enumerer_choix holds the
\* empty choice with a strictly positive probability, so that removing it and
\* unwrapping never panics; the choices StatsJet::new keeps are all the
\* others, and none of them is empty.
C12_PerteProbable ==
    /\ (pc = "tirages" /\ num_comb = NbComb(nb_des)) =>
          \E i \in Pertes(comptage_choix) : comptage_choix[i].compte >= 1
    /\ pc \in {"choix", "stats"} =>
          /\ proba_perte(choix_et_probas) # Vide
          /\ FlLess(FlZero, proba_perte(choix_et_probas)[1])
    /\ pc = "stats" =>
          /\ Len(stats_choix) = Len(choix_et_probas) - 1
          /\ \A i \in DOMAIN stats_choix : stats_choix[i].choix # Vide

C12_Witness ==
    /\ pc = "stats"
    /\ nb_des = 4
    /\ Len(stats_choix) >= 2
    /\ proba_perte(choix_et_probas) # Vide

----------------------------------------------------------------------------
(* Properties of Combinaison::valeur *)

\* the reference value of three dice of a face
ValeurTriple(face) == IF face = 0 THEN 1000 ELSE (face + 1) * 100

\* the reference table of the values
ValeurReference(comb) ==
    IF comb.type \in {"Suite", "TriplePaire"} THEN 500
    ELSE IF comb.type = "BrelanDouble"
         THEN ValeurTriple(comb.idx_face) + ValeurTriple(comb.idx_face_2)
    ELSE IF comb.type = "BrelanSimple"
         THEN ValeurTriple(comb.idx_face) + 100 * comb.nb_un + 50 * comb.nb_cinq
    ELSE 100 * comb.nb_un + 50 * comb.nb_cinq

\* every combination of at most NB_DES_TOT dice
Combinaisons ==
    {Suite, TriplePaire}
        \cup { BrelanDouble(f1, f2) : f1 \in Faces, f2 \in Faces }
        \cup { BrelanSimple(f, un, cinq) : f \in Faces, un \in 0 .. 3, cinq \in 0 .. 3 }
        \cup { FacesSimples(un, cinq) : un \in 0 .. NB_DES_TOT, cinq \in 0 .. NB_DES_TOT }

\* C13: valeur() equals the reference table for every combination, the
\* combinations enumerer_combinaisons emits are combinations whose face
\* indices lie in 0..5, and the value StatsJet::new notes is that of the table.
C13_ValeurTable ==
    /\ \A comb \in Combinaisons : Valeur(comb) = ValeurReference(comb)
    /\ \A i \in DOMAIN choix :
          /\ choix[i] \in Combinaisons
          /\ choix[i].idx_face \in 0 .. 5 /\ choix[i].idx_face_2 \in 0 .. 5
          /\ Valeur(choix[i]) = ValeurReference(choix[i])
    /\ \A i \in DOMAIN possibilites : possibilites[i].valeur = ValeurReference(choix[i])

C13_Witness ==
    /\ pc = "possibilites"
    /\ \E i \in DOMAIN choix :
          /\ choix[i] = BrelanDouble(0, 5)
          /\ possibilites[i].valeur = 1600
    /\ \E i \in DOMAIN choix :
          /\ choix[i] = BrelanSimple(5, 0, 0)
          /\ possibilites[i].valeur = 600

----------------------------------------------------------------------------
(* Properties of the recursion of enumerer_combinaisons *)

\* histo_sans_brelans for the triple of idx_face
SansBrelan(h, idx_face) == [h EXCEPT ![idx_face] = @ - 3]

\* the faces for which enumerer_combinaisons(h) calls itself
FacesBrelan(h) == { f \in Faces : h[f] >= 3 }

RECURSIVE ProfondeurAppels(_)
\* the greatest number of nested recursive calls under enumerer_combinaisons(h)
ProfondeurAppels(h) ==
    IF FacesBrelan(h) = {} THEN 0
    ELSE 1 + MaxNat({ ProfondeurAppels(SansBrelan(h, f)) : f \in FacesBrelan(h) })

\* the results of a recursive call that the match handles
AttenduParMatch(combi) ==
    \/ combi.type = "FacesSimples"
    \/ combi.type = "BrelanSimple" /\ combi.nb_un = 0 /\ combi.nb_cinq = 0

\* C17: for a histogram of at most 6 dice, the recursive call made after
\* removing one triple returns only BrelanSimple(face, 0, 0) and FacesSimples
\* entries, the unreachable!() arm is never executed, and at most 2 recursive
\* calls are nested.
C17_Recursion ==
    /\ \A f \in FacesBrelan(histo) :
          \A combi \in Range(enumerer_combinaisons(SansBrelan(histo, f))) :
              AttenduParMatch(combi)
    /\ Inatteignable \notin Range(choix)
    /\ ProfondeurAppels(histo) <= 2

C17_Witness ==
    /\ pc = "combinaisons"
    /\ Cardinality(FacesBrelan(histo)) = 2
    /\ ProfondeurAppels(histo) = 2
    /\ \E i \in DOMAIN choix : choix[i].type = "BrelanDouble"
    /\ \E i \in DOMAIN choix : choix[i].type = "BrelanSimple"

----------------------------------------------------------------------------
(* Properties of the value returned by Stats::esperance *)

\* Stats::esperance has returned
EsperanceRendue == pc = "repos" /\ requete.fn = "esperance" /\ resultat # Vide

\* the call of calcul_esperance the loop would make at bound b
CadreA(b) == Cadre(requete.score, requete.nb_des, requete.mise, b)

\* C15, as claimed: the value Stats::esperance returns at bound b is the value
\* of calcul_esperance at the greater bounds (here b + 1 and b + 2).
C15_Original ==
    EsperanceRendue =>
        \A b \in {num_relances + 1, num_relances + 2} :
            calcul_esperance(stats_jets, CadreA(b)) = resultat[1]

----------------------------------------------------------------------------
(* Properties of Stats::proba_fin *)

\* Stats::proba_fin has returned
ProbaFinRendue == pc = "repos" /\ requete.fn = "proba_fin" /\ resultat # Vide

\* C14: proba_fin never evaluates calcul_proba_fin, directly or through the
\* recursion, above the bound max_relances it was given; the value it returns
\* is that of calcul_proba_fin at the bound where its loop stood, at most
\* max_relances; it lies in [0, 1] and does not exceed the value at the bound
\* max_relances.
C14_ProbaBornee ==
    /\ pc = "proba_fin" =>
          /\ num_relances <= requete.max_relances
          /\ \A i \in DOMAIN pile : pile[i].max_relances <= num_relances
    /\ \A n \in DOMAIN proba_fin : \A k \in DOMAIN proba_fin[n] :
          k[3] <= MaxNat(RelancesProba)
    /\ ProbaFinRendue =>
          /\ num_relances <= requete.max_relances
          /\ EnCache(proba_fin, CadreBoucle)
          /\ resultat[1] = Lire(proba_fin, CadreBoucle)
          /\ resultat[1] = calcul_proba_fin(stats_jets, CadreBoucle)
          /\ FlGeq(resultat[1], FlZero)
          /\ FlGeq(FlOne, resultat[1])
          /\ FlGeq(calcul_proba_fin(stats_jets,
                       Cadre(requete.score, requete.nb_des, requete.mise,
                             requete.max_relances)),
                   resultat[1])

\* proba_fin returned from inside its loop, below max_relances
C14_Witness ==
    /\ ProbaFinRendue
    /\ num_relances < requete.max_relances
    /\ FlLess(FlZero, resultat[1])
    /\ FlLess(resultat[1], FlOne)
    /\ \E n \in DOMAIN proba_fin : \E k \in DOMAIN proba_fin[n] :
          k[3] = MaxNat(RelancesProba)

----------------------------------------------------------------------------
(* The specified recursion: the child of a combination is evaluated at the  *)
(* bound just below only                                                    *)

\* the states reached by banking a combination of the choice sc and
\* rerolling, at the bound just below
EtatsSuivants(sc, f) ==
    IF f.max_relances = 0 THEN {}
    ELSE { Cadre(f.score, sc.choix[k].nb_des_relance, f.mise + sc.choix[k].valeur,
                 f.max_relances - 1) :
              k \in { j \in DOMAIN sc.choix : f.score + f.mise + sc.choix[j].valeur < SCORE_MAX } }

\* stopValue, when stopping is legal
ArretsSpec(sc, f) ==
    IF f.score + f.mise + MeilleureValeur(sc) <= SCORE_MAX
    THEN {FlFromNat(f.mise + MeilleureValeur(sc))}
    ELSE {}

\* the values <<state, value>> known for the states reached from f
ValeurDe(vals, e) == (CHOOSE p \in vals : p[1] = e)[2]

RECURSIVE SommeSolve(_, _, _, _, _)
SommeSolve(vals, sj, f, lo, hi) ==
    IF lo > hi THEN FlZero
    ELSE IF lo = hi
         THEN FlMul(sj[lo].proba,
                    FlMaxSet({FlZero} \cup ArretsSpec(sj[lo], f)
                                \cup { ValeurDe(vals, e) : e \in EtatsSuivants(sj[lo], f) }))
    ELSE LET mid == (lo + hi) \div 2
         IN  FlAdd(SommeSolve(vals, sj, f, lo, mid), SommeSolve(vals, sj, f, mid + 1, hi))

RECURSIVE Solve(_, _)
\* solve(state, bound) of the specification
Solve(st, f) ==
    LET suivants == UNION { EtatsSuivants(sc, f) : sc \in Range(st[f.nb_des]) }
        vals == { <<e, Solve(st, e)>> : e \in suivants }
    IN  SommeSolve(vals, st[f.nb_des], f, 1, Len(st[f.nb_des]))

\* C16: every value calcul_esperance computes and caches, folding the maximum
\* over its children at all the smaller bounds, is the value of the specified
\* recursion, which evaluates a child at the bound just below only.
C16_MemeValeur ==
    [][(pc = "esperance" /\ pile # Vide /\ esperance' # esperance)
          => Lire(esperance', Sommet) = Solve(stats_jets, Sommet)]_vars

C16_Witness ==
    /\ pc = "esperance"
    /\ \E n \in DOMAIN esperance : \E k \in DOMAIN esperance[n] :
          /\ k[3] = 2
          /\ \E m \in DOMAIN esperance : \E j \in DOMAIN esperance[m] :
                /\ j[1] = k[1] /\ j[2] > k[2] /\ j[3] = 0
                /\ <<j[1], j[2], 1>> \in DOMAIN esperance[m]
                /\ FlLess(esperance[m][j], esperance[m][<<j[1], j[2], 1>>])

====
